---- MODULE Spec2Model ----
(***************************************************************************)
(* Model of chat_agents/tools/padlet_api_tools.py: the wall-update data    *)
(* model, remove_none_values, _get_padlet_token_from_runtime,              *)
(* update_padlet and send_update_wall_request.                             *)
(***************************************************************************)
EXTENDS Integers, Sequences, FiniteSets, TLC

VARIABLES
    \* remove_none_values, called on its own
    obj,                \* the argument
    cleaned,            \* the value returned
    san_pc,             \* "input" | "done"
    \* one call of the tool update_padlet
    pc,                 \* position of the call, see CallStates
    environ,            \* os.environ: PADLET_AI_TOKEN, ENVIRONMENT, RAILS_INTERNAL_URL
    runtime,            \* what get_runtime() returns for this call
    wall_id,            \* argument wall_id
    wall_data,          \* argument wall_data
    token,              \* the resolved JWT
    cleaned_wall_data,  \* remove_none_values(wall_data)
    posts,              \* the requests handed to session.post, in order
    response,           \* the response session.post yielded
    raised,             \* the exception that left the call
    returned,           \* the value the call returned
    printed,            \* what pprint.pprint was called with, in order
    \* the construction of one model of the update data model
    model_cls,          \* the class constructed
    kwargs,             \* its keyword arguments
    constructed,        \* the outcome: the instance, or ValidationError
    con_pc              \* "input" | "done"

san_vars == <<obj, cleaned, san_pc>>

call_vars == <<pc, environ, runtime, wall_id, wall_data, token, cleaned_wall_data,
               posts, response, raised, returned, printed>>

con_vars == <<model_cls, kwargs, constructed, con_pc>>

vars == <<san_vars, call_vars, con_vars>>

(***************************************************************************)
(* JSON-like values.  Every value is a record of one shape:                *)
(*   tag   "null" | "bool" | "num" | "str" | "dict" | "list"               *)
(*   val   the scalar's text ("" for containers and null)                  *)
(*   keys  a dict's keys in insertion order (<<>> otherwise)               *)
(*   items a dict's values, parallel to keys, or a list's elements         *)
(***************************************************************************)
Null == [tag |-> "null", val |-> "", keys |-> <<>>, items |-> <<>>]

Leaf(t, v) == [tag |-> t, val |-> v, keys |-> <<>>, items |-> <<>>]

Str(s) == Leaf("str", s)

Bool(b) == Leaf("bool", b)

Num(n) == Leaf("num", n)

Dict(ks, vs) == [tag |-> "dict", val |-> "", keys |-> ks, items |-> vs]

List(vs) == [tag |-> "list", val |-> "", keys |-> <<>>, items |-> vs]

EmptyDict == Dict(<<>>, <<>>)

\* Largest number of nodes of a tree handed to remove_none_values.
MaxNodes == 4

\* The scalar leaves of the trees: None, "" and a non-empty string.
TreeLeaves == {Null, Str(""), Str("New")}

\* The keys a mapping of the trees may carry.
TreeKeys == {"padlet_title", "settings"}

\* The sequences of n distinct keys.
KeySeqs(n) ==
    {ks \in [1..n -> TreeKeys] : \A i, j \in 1..n : i # j => ks[i] # ks[j]}

\* The nodes whose children are exactly the forest f.
NodesOver(f) ==
    (IF f = <<>> THEN TreeLeaves ELSE {})
        \cup {List(f)}
        \cup {Dict(ks, f) : ks \in KeySeqs(Len(f))}

\* Forests[n]: the sequences of trees with n nodes in total.
Forests[n \in 0..(MaxNodes - 1)] ==
    IF n = 0 THEN {<<>>}
    ELSE UNION {UNION {{<<t>> \o f : t \in NodesOver(g), f \in Forests[n - k]} :
                           g \in Forests[k - 1]} : k \in 1..n}

\* Every tree of at most MaxNodes nodes.
AllTrees == UNION {NodesOver(f) : f \in UNION {Forests[n] : n \in 0..(MaxNodes - 1)}}

(***************************************************************************)
(* remove_none_values (lines 155-162)                                      *)
(***************************************************************************)
\* Python truthiness of a JSON-like value (bool(v)).
Truthy(v) ==
    CASE v.tag = "null" -> FALSE
      [] v.tag = "bool" -> v.val = "true"
      [] v.tag = "num"  -> v.val # "0"
      [] v.tag = "str"  -> v.val # ""
      [] OTHER          -> v.items # <<>>

\* The filter written `if v' in place of `if v is not None'.
IsNone_falsy(v) == ~Truthy(v)

\* `v is not None' negated: the test of the dict comprehension's filter.
IsNone(v) == v.tag = "null"

\* The indices of vs, in order, whose element passes the filter.
RECURSIVE KeptIndices(_, _)
KeptIndices(vs, i) ==
    IF i > Len(vs) THEN <<>>
    ELSE IF IsNone(vs[i]) THEN KeptIndices(vs, i + 1)
    ELSE <<i>> \o KeptIndices(vs, i + 1)

RECURSIVE remove_none_values(_)
\* The transform without its recursive calls: only the top-level keys are filtered.
remove_none_values_shallow(o) ==
    IF o.tag = "dict" THEN
        LET keep == KeptIndices(o.items, 1)
        IN Dict([i \in 1..Len(keep) |-> o.keys[keep[i]]],
                [i \in 1..Len(keep) |-> o.items[keep[i]]])
    ELSE o

remove_none_values(o) ==
    IF o.tag = "dict" THEN
        LET keep == KeptIndices(o.items, 1)
        IN Dict([i \in 1..Len(keep) |-> o.keys[keep[i]]],
                [i \in 1..Len(keep) |-> remove_none_values(o.items[keep[i]])])
    ELSE IF o.tag = "list" THEN
        List([i \in 1..Len(o.items) |-> remove_none_values(o.items[i])])
    ELSE o

(***************************************************************************)
(* Paths into a tree.  A step is a dict key (i = 0) or a list index        *)
(* (k = "").                                                               *)
(***************************************************************************)
KeyStep(k) == [k |-> k, i |-> 0]

IndexStep(i) == [k |-> "", i |-> i]

Missing == Leaf("missing", "")

IsContainer(t) == t.tag \in {"dict", "list"}

RECURSIVE PathsOf(_)
PathsOf(t) ==
    {<<>>} \cup
    (IF t.tag = "dict" THEN
        UNION {{<<KeyStep(t.keys[j])>> \o p : p \in PathsOf(t.items[j])} :
                   j \in 1..Len(t.items)}
     ELSE IF t.tag = "list" THEN
        UNION {{<<IndexStep(j)>> \o p : p \in PathsOf(t.items[j])} :
                   j \in 1..Len(t.items)}
     ELSE {})

RECURSIVE At(_, _)
At(t, p) ==
    IF p = <<>> THEN t
    ELSE LET s == Head(p) IN
         IF s.i = 0 THEN
            IF t.tag = "dict" /\ \E j \in 1..Len(t.keys) : t.keys[j] = s.k
            THEN At(t.items[CHOOSE j \in 1..Len(t.keys) : t.keys[j] = s.k], Tail(p))
            ELSE Missing
         ELSE
            IF t.tag = "list" /\ s.i <= Len(t.items)
            THEN At(t.items[s.i], Tail(p))
            ELSE Missing

Prefix(p, n) == SubSeq(p, 1, n)

\* No mapping key on the way to p (p's own last step included) holds null in t.
NoNullKeyOnPath(t, p) ==
    \A n \in 1..Len(p) : p[n].i = 0 => At(t, Prefix(p, n)).tag # "null"

MaxOf(S) == CHOOSE x \in S : \A y \in S : y <= x

Depth(t) == MaxOf({Len(p) : p \in PathsOf(t)})

(***************************************************************************)
(* The update data model (lines 22-152): pydantic models, validated at     *)
(* construction.  A field is F(name, ty, of, nullable, has_default):       *)
(*   ty          "str" | "int" | "float" | "bool" | "enum" | "list" |      *)
(*               "model"                                                   *)
(*   of          the enum, or the model a "model" or "list" field holds    *)
(*   nullable    the annotation is `... | None'                            *)
(*   has_default Field(None, ...): a default is given; Field(description=  *)
(*               ...) alone gives none, and the field is required          *)
(***************************************************************************)
F(n, t, o, nl, d) == [name |-> n, ty |-> t, of |-> o, nullable |-> nl, has_default |-> d]

EnumMembers(e) ==
    CASE e = "PadletFormat" -> {"wall", "stream", "timeline", "grid", "canvas", "map"}
      [] e = "ReactionType" -> {"none", "like", "vote", "star", "grade", "emoji"}
      [] e = "WishColor" -> {"red", "orange", "green", "blue", "purple", "white"}
      [] e = "AttachmentType" -> {"image", "video", "link"}

WallUpdateSectionData ==
    <<F("section_id", "str", "", FALSE, FALSE),
      F("section_title", "str", "", FALSE, FALSE)>>

WallUpdateCustomFieldValueData ==
    <<F("field_name", "str", "", FALSE, FALSE),
      F("field_value", "str", "", FALSE, FALSE)>>

WallUpdateLocationData ==
    <<F("latitude", "float", "", FALSE, FALSE),
      F("longitude", "float", "", FALSE, FALSE),
      F("location_name", "str", "", FALSE, FALSE)>>

WallUpdatePostData ==
    <<F("post_id", "str", "", FALSE, FALSE),
      F("section_id", "str", "", TRUE, TRUE),
      F("subject", "str", "", TRUE, FALSE),
      F("body", "str", "", TRUE, TRUE),
      F("custom_field_values", "list", "WallUpdateCustomFieldValueData", TRUE, FALSE),
      F("color", "enum", "WishColor", TRUE, TRUE),
      F("attachment_search", "str", "", TRUE, TRUE),
      F("attachment_type", "enum", "AttachmentType", TRUE, TRUE),
      F("location_data", "model", "WallUpdateLocationData", TRUE, TRUE)>>

WallUpdateCustomFieldData ==
    <<F("field_name", "str", "", FALSE, FALSE)>>

WallUpdateSettingsData ==
    <<F("format", "enum", "PadletFormat", TRUE, TRUE),
      F("sections_enabled", "bool", "", TRUE, TRUE),
      F("comments_enabled", "bool", "", TRUE, TRUE),
      F("reactions", "enum", "ReactionType", TRUE, TRUE),
      F("add_custom_fields", "list", "WallUpdateCustomFieldData", TRUE, TRUE)>>

WallUpdateData ==
    <<F("padlet_title", "str", "", TRUE, TRUE),
      F("padlet_description", "str", "", TRUE, TRUE),
      F("wallpaper_description", "str", "", TRUE, TRUE),
      F("sections", "list", "WallUpdateSectionData", TRUE, TRUE),
      F("section_order", "list", "str", TRUE, TRUE),
      F("posts", "list", "WallUpdatePostData", TRUE, TRUE),
      F("post_order", "list", "str", TRUE, TRUE),
      F("settings", "model", "WallUpdateSettingsData", TRUE, TRUE)>>

UpdatePadletArgs ==
    <<F("wall_id", "int", "", FALSE, FALSE),
      F("wall_data", "model", "WallUpdateData", FALSE, FALSE)>>

ModelClasses ==
    {"WallUpdateSectionData", "WallUpdateCustomFieldValueData", "WallUpdateLocationData",
     "WallUpdatePostData", "WallUpdateCustomFieldData", "WallUpdateSettingsData",
     "WallUpdateData", "UpdatePadletArgs"}

FieldsOf(c) ==
    CASE c = "WallUpdateSectionData" -> WallUpdateSectionData
      [] c = "WallUpdateCustomFieldValueData" -> WallUpdateCustomFieldValueData
      [] c = "WallUpdateLocationData" -> WallUpdateLocationData
      [] c = "WallUpdatePostData" -> WallUpdatePostData
      [] c = "WallUpdateCustomFieldData" -> WallUpdateCustomFieldData
      [] c = "WallUpdateSettingsData" -> WallUpdateSettingsData
      [] c = "WallUpdateData" -> WallUpdateData
      [] c = "UpdatePadletArgs" -> UpdatePadletArgs

FieldNames(c) == {FieldsOf(c)[j].name : j \in 1..Len(FieldsOf(c))}

FieldNamed(c, n) ==
    FieldsOf(c)[CHOOSE j \in 1..Len(FieldsOf(c)) : FieldsOf(c)[j].name = n]

\* A keyword argument that is not given.
Absent == Leaf("absent", "")

\* A list, or the input of a nested model, whose own validation succeeds
\* ("valid") or fails ("invalid").
ListInput(v) == Leaf("list_input", v)

ModelInput(v) == Leaf("model_input", v)

\* The values a keyword argument is given.
InputValues ==
    {Null, Str("red"), Str("zzz"), Num("1"), Bool("true"),
     ListInput("valid"), ListInput("invalid"),
     ModelInput("valid"), ModelInput("invalid")}

\* Largest number of keyword arguments given to a constructor.
MaxProvided == 2

\* The keyword arguments of class c: at most MaxProvided fields given.
KwargsOf(c) ==
    UNION {{[n \in FieldNames(c) |-> IF n \in S THEN vals[n] ELSE Absent] :
                vals \in [S -> InputValues]} :
              S \in {T \in SUBSET FieldNames(c) : Cardinality(T) <= MaxProvided}}

\* Whether a non-null value validates as the declared type.
TypeAccepts(f, v) ==
    CASE f.ty = "str"   -> v.tag = "str"
      [] f.ty = "int"   -> v.tag \in {"num", "bool"}
      [] f.ty = "float" -> v.tag \in {"num", "bool"}
      [] f.ty = "bool"  -> v.tag = "bool" \/ v = Num("1")
      [] f.ty = "enum"  -> v.tag = "str" /\ v.val \in EnumMembers(f.of)
      [] f.ty = "list"  -> v = ListInput("valid")
      [] f.ty = "model" -> v = ModelInput("valid")

Accepts(f, v) == (v = Null /\ f.nullable) \/ (v # Null /\ TypeAccepts(f, v))

\* The fields whose validation fails: required and not given, or given a
\* value the declared type does not accept.
FieldErrors(c, kw) ==
    {n \in FieldNames(c) :
        \/ kw[n] = Absent /\ ~FieldNamed(c, n).has_default
        \/ kw[n] # Absent /\ ~Accepts(FieldNamed(c, n), kw[n])}

\* BaseModel.__init__: the instance, or ValidationError naming the fields.
Construct(c, kw) ==
    [error |-> IF FieldErrors(c, kw) = {} THEN "" ELSE "ValidationError",
     fields |-> FieldErrors(c, kw)]

NotConstructed == [error |-> "", fields |-> {}]

ConParked ==
    /\ model_cls = ""
    /\ kwargs = <<>>
    /\ constructed = NotConstructed
    /\ con_pc = "off"

(***************************************************************************)
(* Exceptions.  WallUpdateFailedError (lines 18-19) is the one class the   *)
(* module raises; its raise sites differ by message.  status carries the   *)
(* response status a message embeds (0: none).                             *)
(***************************************************************************)
Exc(c, m, st) == [cls |-> c, msg |-> m, status |-> st]

NoExc == Exc("", "", 0)

WallUpdateFailedError(m, st) == Exc("WallUpdateFailedError", m, st)

MissingTokenError ==
    WallUpdateFailedError("Missing Padlet JWT token. Pass it via config.configurable.padlet_token", 0)

MissingUrlError ==
    WallUpdateFailedError("RAILS_INTERNAL_URL is not set in the environment", 0)

UpdateRejectedError == WallUpdateFailedError("Wall update failed", 0)

NotJsonError(st) == WallUpdateFailedError("Response not json: {status}", st)

ClientFailedError == WallUpdateFailedError("Wall update failed: {e}", 0)

BadStatusError(st) == WallUpdateFailedError("Wall update failed with status {status}", st)

\* The error kinds of the design, by raise site.
ErrorKind(e) ==
    CASE e = NoExc -> "none"
      [] e = MissingTokenError -> "AuthError"
      [] e = MissingUrlError -> "ConfigError"
      [] e.cls = "WallUpdateFailedError" -> "UpdateError"
      [] OTHER -> "unclassified"

(***************************************************************************)
(* The process environment                                                 *)
(***************************************************************************)
\* What os.getenv yields for a variable that is not set: None.
PyNone == "<None>"

os_getenv(name) == environ[name]

os_getenv_default(name, default) ==
    IF environ[name] = PyNone THEN default ELSE environ[name]

\* The test written `is not None' in place of truthiness.
StrTruthy_is_not_none(s) == s # PyNone

\* bool(s) of a str or None.
StrTruthy(s) == s \notin {PyNone, ""}

NoEnviron ==
    [PADLET_AI_TOKEN |-> PyNone, ENVIRONMENT |-> PyNone, RAILS_INTERNAL_URL |-> PyNone]

Environments ==
    [PADLET_AI_TOKEN : {PyNone, "", "B"},
     ENVIRONMENT : {PyNone, "development", "production"},
     RAILS_INTERNAL_URL : {PyNone, "", "http://rails", "http://rails/"}]

(***************************************************************************)
(* _get_padlet_token_from_runtime (lines 165-204)                          *)
(*                                                                         *)
(* A runtime is described by what each access of the function yields:      *)
(*   config        getattr(runtime, "config", None): "none" | "dict" |     *)
(*                 "attr" (an object) | "raises"                           *)
(*   configurable  the "configurable" section: "none" | "dict" | "attr" |  *)
(*                 "not_indexable" (neither a dict nor an object with the  *)
(*                 attribute) | "raises"                                   *)
(*   cfg_token     the section's padlet_token (Null when it has none)      *)
(*   context       getattr(runtime, "context", None), shapes as above      *)
(*   ctx_token     the context's padlet_token                              *)
(* A token of tag "bad" is an object whose truth test raises.              *)
(***************************************************************************)
BadToken == Leaf("bad", "")

ConfigTokens == {Null, Str(""), Str("A"), Num("7"), BadToken}

ContextTokens == {Null, Str(""), Str("C"), BadToken}

Runtimes ==
    {rt \in [config : {"none", "dict", "attr", "raises"},
             configurable : {"none", "dict", "attr", "not_indexable", "raises"},
             cfg_token : ConfigTokens,
             context : {"none", "dict", "attr", "not_indexable", "raises"},
             ctx_token : ContextTokens] :
        /\ rt.config \in {"none", "raises"} => rt.configurable = "none"
        /\ rt.configurable \notin {"dict", "attr"} => rt.cfg_token = Null
        /\ rt.context \notin {"dict", "attr"} => rt.ctx_token = Null}

NoRuntime ==
    [config |-> "none", configurable |-> "none", cfg_token |-> Null,
     context |-> "none", ctx_token |-> Null]

\* What a try block came to: the value it reached, or an exception.
Found(v) == [raises |-> FALSE, value |-> v]

Raises == [raises |-> TRUE, value |-> Null]

\* `if token: return str(token)' (lines 187-188 and 199-200); Null: fall through.
TokenTest(tok) ==
    IF tok.tag = "bad" THEN Raises
    ELSE IF Truthy(tok) THEN Found(Str(tok.val))
    ELSE Found(Null)

\* The body of the first try block (lines 176-188).
ProbeConfigurable(rt) ==
    IF rt.config = "raises" THEN Raises
    ELSE LET configurable ==
                 IF rt.config \in {"dict", "attr"} THEN rt.configurable ELSE "none"
         IN IF configurable = "raises" THEN Raises
            ELSE IF configurable \in {"dict", "attr"} THEN TokenTest(rt.cfg_token)
            ELSE TokenTest(Null)

\* The body of the second try block (lines 194-200).
ProbeContext(rt) ==
    IF rt.context = "raises" THEN Raises
    ELSE IF rt.context \in {"dict", "attr"} THEN TokenTest(rt.ctx_token)
    ELSE TokenTest(Null)

\* The handler without its effect: the exception leaves the try block.
ExceptPass_reraise(r) == r

\* `except Exception: pass' (lines 189-190 and 201-202).
ExceptPass(r) == IF r.raises THEN Found(Null) ELSE r

\* The two sources probed in the other order.
get_padlet_token_context_first(rt) ==
    LET first == ExceptPass(ProbeContext(rt))
    IN IF first.raises \/ first.value # Null THEN first
       ELSE ExceptPass(ProbeConfigurable(rt))

get_padlet_token_from_runtime(rt) ==
    LET first == ExceptPass(ProbeConfigurable(rt))
    IN IF first.raises \/ first.value # Null THEN first
       ELSE ExceptPass(ProbeContext(rt))

(***************************************************************************)
(* send_update_wall_request: the request and the response (lines 254-281)  *)
(***************************************************************************)
\* base_url.rstrip("/") over the base URLs of Environments.
RStripSlash(u) == IF u = "http://rails/" THEN "http://rails" ELSE u

RequestUrl(base, id) ==
    (RStripSlash(base) \o "/") \o "api/1/walls/" \o ToString(id) \o "/ai-chat"

Request(base, id, data, tok) ==
    [url |-> RequestUrl(base, id),
     json |-> Dict(<<"tool_uses">>, <<data>>),
     Authorization |-> "Bearer " \o tok]

\* Bodies of a response, as response.json() parses them.
SuccessValues ==
    {Bool("false"), Bool("true"), Null, Num("0"), Num("1"), Str(""), List(<<>>)}

DataBody(d) == Dict(<<"data">>, <<d>>)

AttributesBody(a) == DataBody(Dict(<<"attributes">>, <<a>>))

SuccessBody(v) == AttributesBody(Dict(<<"success">>, <<v>>))

ResponseBodies ==
    {EmptyDict, Null, List(<<>>), Str("ok")}
        \cup {DataBody(d) : d \in {Null, EmptyDict, List(<<>>)}}
        \cup {AttributesBody(a) : a \in {Null, EmptyDict}}
        \cup {SuccessBody(v) : v \in SuccessValues}

\* A response: its status, what `await response.json()' does ("parsed", or
\* the exception it raises), and the parsed body.
Responses ==
    {[status |-> 200, json |-> "parsed", body |-> b] : b \in ResponseBodies}
        \cup {[status |-> 200, json |-> j, body |-> Null] :
                 j \in {"ContentTypeError", "ClientError", "JSONDecodeError"}}
        \cup {[status |-> st, json |-> "parsed", body |-> EmptyDict] :
                 st \in {201, 404, 500}}

NoResponse == [status |-> 0, json |-> "", body |-> Null]

\* d.get(k, default) on a dict d.
DictGet(d, k, default) ==
    IF \E j \in 1..Len(d.keys) : d.keys[j] = k
    THEN d.items[CHOOSE j \in 1..Len(d.keys) : d.keys[j] = k]
    ELSE default

AttributeError == Exc("AttributeError", "object has no attribute 'get'", 0)

\* Lines 268-273: the exception the probe of data.attributes.success ends
\* in, NoExc when it ends in none.
SuccessProbe(body) ==
    IF body.tag # "dict" THEN AttributeError
    ELSE LET data == DictGet(body, "data", EmptyDict)
         IN IF data.tag # "dict" THEN AttributeError
            ELSE LET attributes == DictGet(data, "attributes", EmptyDict)
                 IN IF attributes.tag # "dict" THEN AttributeError
                    ELSE IF ~Truthy(DictGet(attributes, "success", Bool("true")))
                         THEN UpdateRejectedError
                         ELSE NoExc

\* A status test that lets every 2xx status through.
StatusIs200_any2xx(st) == st >= 200 /\ st < 300

\* `response.status == 200' (line 264).
StatusIs200(st) == st = 200

\* Lines 264-281: the exception the response ends the call with, NoExc when
\* the call goes on to return.
HandleResponse(resp) ==
    IF StatusIs200(resp.status) THEN
        CASE resp.json = "parsed" -> SuccessProbe(resp.body)
          [] resp.json = "ContentTypeError" -> NotJsonError(resp.status)
          [] resp.json = "ClientError" -> ClientFailedError
          [] OTHER -> Exc(resp.json, "", 0)
    ELSE BadStatusError(resp.status)

(***************************************************************************)
(* update_padlet (lines 207-244), one call                                 *)
(***************************************************************************)
CallStates ==
    {"Idle", "Resolving", "Authorized", "Building", "Sending", "Succeeded", "Failed"}

WallIds == {7, 42}

WallDatas ==
    {Dict(<<"padlet_title", "posts">>, <<Str("New"), Null>>),
     Dict(<<"settings">>, <<Dict(<<"format">>, <<Null>>)>>)}

NoReturn == [success |-> FALSE, wall_id |-> 0]

CallParked ==
    /\ pc = "Idle"
    /\ runtime = NoRuntime
    /\ wall_id = 0
    /\ wall_data = Null
    /\ token = PyNone
    /\ cleaned_wall_data = Null
    /\ posts = <<>>
    /\ response = NoResponse
    /\ raised = NoExc
    /\ returned = NoReturn
    /\ printed = <<>>

SanParked ==
    /\ obj = Null
    /\ cleaned = Null
    /\ san_pc = "off"

Init ==
    /\ CallParked
    /\ environ \in Environments
    /\ SanParked
    /\ ConParked

\* The runtime invokes the tool with its arguments and the call's context.
Invoke ==
    /\ pc = "Idle"
    /\ \E rt \in Runtimes, id \in WallIds, data \in WallDatas :
          /\ runtime' = rt
          /\ wall_id' = id
          /\ wall_data' = data
    /\ pc' = "Resolving"
    /\ UNCHANGED <<environ, token, cleaned_wall_data, posts, response, raised,
                   returned, printed, san_vars, con_vars>>

\* Lines 226-241.
ResolveCredential ==
    /\ pc = "Resolving"
    /\ LET found == get_padlet_token_from_runtime(runtime)
           env_token == os_getenv("PADLET_AI_TOKEN")
       IN IF found.raises THEN
              /\ raised' = Exc("Exception", "", 0)
              /\ pc' = "Failed"
              /\ UNCHANGED <<token, printed>>
          ELSE IF Truthy(found.value) THEN
              /\ token' = found.value.val
              /\ pc' = "Authorized"
              /\ UNCHANGED <<raised, printed>>
          ELSE IF StrTruthy(env_token) THEN
              /\ token' = env_token
              /\ pc' = "Authorized"
              /\ UNCHANGED <<raised, printed>>
          ELSE
              /\ printed' = IF os_getenv("ENVIRONMENT") = "development"
                            THEN Append(printed, "padlet_token_error")
                            ELSE printed
              /\ raised' = MissingTokenError
              /\ pc' = "Failed"
              /\ UNCHANGED token
    /\ UNCHANGED <<environ, runtime, wall_id, wall_data, cleaned_wall_data, posts,
                   response, returned, san_vars, con_vars>>

\* Lines 250-252.
BuildPayload ==
    /\ pc = "Authorized"
    /\ cleaned_wall_data' = remove_none_values(wall_data)
    /\ printed' = IF os_getenv_default("ENVIRONMENT", "production") = "development"
                  THEN Append(printed, "sending_update_wall_request")
                  ELSE printed
    /\ pc' = "Building"
    /\ UNCHANGED <<environ, runtime, wall_id, wall_data, token, posts, response,
                   raised, returned, san_vars, con_vars>>

\* Lines 254-263.
PostRequest ==
    /\ pc = "Building"
    /\ LET base_url == os_getenv("RAILS_INTERNAL_URL")
       IN IF ~StrTruthy(base_url) THEN
              /\ raised' = MissingUrlError
              /\ pc' = "Failed"
              /\ UNCHANGED posts
          ELSE
              /\ posts' = Append(posts, Request(base_url, wall_id, cleaned_wall_data, token))
              /\ pc' = "Sending"
              /\ UNCHANGED raised
    /\ UNCHANGED <<environ, runtime, wall_id, wall_data, token, cleaned_wall_data,
                   response, returned, printed, san_vars, con_vars>>

\* Lines 263-281 and 244.
ReceiveResponse ==
    /\ pc = "Sending"
    /\ \E resp \in Responses :
          /\ response' = resp
          /\ LET e == HandleResponse(resp)
             IN IF e # NoExc THEN
                    /\ raised' = e
                    /\ pc' = "Failed"
                    /\ UNCHANGED returned
                ELSE
                    /\ returned' = [success |-> TRUE, wall_id |-> wall_id]
                    /\ pc' = "Succeeded"
                    /\ UNCHANGED raised
    /\ UNCHANGED <<environ, runtime, wall_id, wall_data, token, cleaned_wall_data,
                   posts, printed, san_vars, con_vars>>

Next ==
    \/ Invoke
    \/ ResolveCredential
    \/ BuildPayload
    \/ PostRequest
    \/ ReceiveResponse

Spec == Init /\ [][Next]_vars

(***************************************************************************)
(* Claims about one call of update_padlet, checked under Spec              *)
(***************************************************************************)
SuccessPath == <<KeyStep("data"), KeyStep("attributes"), KeyStep("success")>>

\* The body carries data.attributes.success, and it is false.
ExplicitFalse(body) == At(body, SuccessPath) = Bool("false")

Responded == response # NoResponse

Ended == pc \in {"Succeeded", "Failed"}

\* C1: the call returns {success: true, wall_id} only after exactly one POST
\* whose response had status 200, parsed, and did not carry success = false;
\* a response of any other status ends the call in the failure that carries
\* that status, and no success is returned.
SuccessOnlyOn200 ==
    /\ returned.success => pc = "Succeeded"
    /\ pc = "Succeeded" =>
          /\ returned = [success |-> TRUE, wall_id |-> wall_id]
          /\ raised = NoExc
          /\ Len(posts) = 1
          /\ response.status = 200
          /\ response.json = "parsed"
          /\ ~ExplicitFalse(response.body)
    /\ (Responded /\ response.status # 200) =>
          /\ pc = "Failed"
          /\ ErrorKind(raised) = "UpdateError"
          /\ raised = BadStatusError(response.status)
          /\ ~returned.success

\* C1 witness: a response of status 500 ended the call in the failure
\* carrying 500.
Status500Fails ==
    /\ pc = "Failed"
    /\ Len(posts) = 1
    /\ response.status = 500
    /\ raised.status = 500

\* C2 as stated: on a 200 response with a parsed body the call fails, with
\* UpdateError, iff data.attributes.success is present and false; every other
\* parsed body is a success.
OnlyExplicitFalseFails ==
    (Ended /\ response.status = 200 /\ response.json = "parsed") =>
        IF ExplicitFalse(response.body)
        THEN pc = "Failed" /\ ErrorKind(raised) = "UpdateError"
        ELSE pc = "Succeeded"

\* Source 1 (configurable.padlet_token) holds a token.
ConfigurableHolds(rt) ==
    /\ rt.config \in {"dict", "attr"}
    /\ rt.configurable \in {"dict", "attr"}
    /\ rt.cfg_token \in {Str("A"), Num("7")}

\* Source 2 (context.padlet_token) holds a token.
ContextHolds(rt) ==
    /\ rt.context \in {"dict", "attr"}
    /\ rt.ctx_token = Str("C")

\* Source 3 (the environment fallback) holds a token.
EnvironHolds == environ.PADLET_AI_TOKEN = "B"

Resolved == pc \notin {"Idle", "Resolving"}

\* C3: the token is that of the first source holding one, in the order
\* configurable, context, environment; with no source holding one the call
\* fails with the missing-token error whatever ENVIRONMENT is, and posts
\* nothing.
FirstSourceWins ==
    Resolved =>
        IF ConfigurableHolds(runtime) THEN token = runtime.cfg_token.val
        ELSE IF ContextHolds(runtime) THEN token = runtime.ctx_token.val
        ELSE IF EnvironHolds THEN token = environ.PADLET_AI_TOKEN
        ELSE /\ pc = "Failed"
             /\ ErrorKind(raised) = "AuthError"
             /\ token = PyNone
             /\ posts = <<>>

\* C3 witness: all three sources hold a token and the first one was taken.
AllSourcesHold ==
    /\ pc = "Authorized"
    /\ runtime.cfg_token = Str("A")
    /\ ConfigurableHolds(runtime)
    /\ ContextHolds(runtime)
    /\ EnvironHolds
    /\ token = "A"

\* Source 1 has an unexpected shape: missing, not indexable, or raising.
ConfigurableOdd(rt) ==
    \/ rt.config \in {"none", "raises"}
    \/ rt.configurable \in {"none", "not_indexable", "raises"}
    \/ rt.cfg_token = BadToken

\* Source 2 has an unexpected shape.
ContextOdd(rt) ==
    \/ rt.context \in {"none", "not_indexable", "raises"}
    \/ rt.ctx_token = BadToken

\* C9: an unexpected shape at a source is `not found' there and nothing
\* more: the token of a later source is still returned, and resolution ends
\* without a token only with the missing-token error, when no later source
\* holds one.
OddShapeIsNotFound ==
    Resolved =>
        /\ (ConfigurableOdd(runtime) /\ ContextHolds(runtime)) =>
              token = runtime.ctx_token.val
        /\ (ConfigurableOdd(runtime) /\ ContextOdd(runtime) /\ EnvironHolds) =>
              token = environ.PADLET_AI_TOKEN
        /\ (~ConfigurableHolds(runtime) /\ ContextOdd(runtime) /\ EnvironHolds) =>
              token = environ.PADLET_AI_TOKEN
        /\ token = PyNone =>
              /\ raised = MissingTokenError
              /\ ~ConfigurableHolds(runtime)
              /\ ~ContextHolds(runtime)
              /\ ~EnvironHolds

\* C9 witness: the first source is not indexable, the second raises, and the
\* environment's token was returned.
OddShapesThenEnviron ==
    /\ pc = "Authorized"
    /\ runtime.configurable = "not_indexable"
    /\ runtime.context = "raises"
    /\ token = "B"

BaseUrlAbsent == environ.RAILS_INTERNAL_URL \in {PyNone, ""}

\* C6: with no base URL the call never reaches a POST; once a token is
\* resolved it ends in the missing-base-URL error, which is not the error of
\* a response, and only that configuration raises it.
MissingBaseUrlFailsBeforePost ==
    /\ BaseUrlAbsent =>
          /\ posts = <<>>
          /\ pc \notin {"Sending", "Succeeded"}
          /\ ~Responded
          /\ (pc = "Failed" /\ token # PyNone) =>
                /\ raised = MissingUrlError
                /\ ErrorKind(raised) = "ConfigError"
    /\ ErrorKind(raised) = "ConfigError" =>
          /\ BaseUrlAbsent
          /\ pc = "Failed"
          /\ posts = <<>>

\* C6 witness: a call with a token and an empty base URL ended in the
\* missing-base-URL error.
EmptyBaseUrlFailed ==
    /\ pc = "Failed"
    /\ environ.RAILS_INTERNAL_URL = ""
    /\ token = "A"
    /\ raised = MissingUrlError
    /\ cleaned_wall_data # Null

\* C5 as stated: a 200 response whose body does not parse ends the call in
\* UpdateError and in nothing else.
UnparseableBodyIsUpdateError ==
    (Responded /\ response.status = 200 /\ response.json # "parsed") =>
        /\ pc = "Failed"
        /\ ErrorKind(raised) = "UpdateError"
        /\ ~returned.success

\* The steps of the per-call state machine, with the failure each may end in.
CallStep ==
    \/ pc = "Idle" /\ pc' = "Resolving" /\ posts' = posts
    \/ pc = "Resolving" /\ pc' = "Authorized" /\ posts' = posts
    \/ pc = "Resolving" /\ pc' = "Failed" /\ posts' = posts
          /\ ErrorKind(raised') = "AuthError"
    \/ pc = "Authorized" /\ pc' = "Building" /\ posts' = posts
    \/ pc = "Building" /\ pc' = "Sending" /\ Len(posts') = Len(posts) + 1
    \/ pc = "Building" /\ pc' = "Failed" /\ posts' = posts
          /\ ErrorKind(raised') = "ConfigError"
    \/ pc = "Sending" /\ pc' = "Succeeded" /\ posts' = posts
    \/ pc = "Sending" /\ pc' = "Failed" /\ posts' = posts
          /\ ErrorKind(raised') = "UpdateError"

\* What holds at each position of the call.
CallStateOK ==
    /\ pc \in CallStates
    /\ Len(posts) <= 1
    /\ pc \in {"Authorized", "Building", "Sending", "Succeeded"} => token # PyNone
    /\ (cleaned_wall_data # Null \/ posts # <<>>) => token # PyNone
    /\ (pc = "Failed" /\ ErrorKind(raised) = "AuthError") => posts = <<>>
    /\ pc \in {"Sending", "Succeeded"} => Len(posts) = 1

\* The steps of CallStep without the kinds of the failures.
CallStepOrder ==
    /\ <<pc, pc'>> \in {<<"Idle", "Resolving">>, <<"Resolving", "Authorized">>,
                        <<"Resolving", "Failed">>, <<"Authorized", "Building">>,
                        <<"Building", "Sending">>, <<"Building", "Failed">>,
                        <<"Sending", "Succeeded">>, <<"Sending", "Failed">>}
    /\ IF pc = "Building" /\ pc' = "Sending"
       THEN Len(posts') = Len(posts) + 1
       ELSE posts' = posts

\* The order of the steps, the terminal states and the single POST alone.
CallOrderHolds == [][CallStepOrder]_call_vars /\ []CallStateOK

\* C4 as stated: every step of a call is a step of Idle, Resolving-Credential,
\* Authorized | Failed(AuthError), Building-Payload, Sending, Succeeded |
\* Failed(ConfigError | UpdateError); nothing leaves Succeeded or Failed; at
\* most one POST is issued, and none by a call that fails with AuthError.
CallFollowsStateMachine == [][CallStep]_call_vars /\ []CallStateOK

(***************************************************************************)
(* Specification of remove_none_values over every bounded tree             *)
(***************************************************************************)
SanInit ==
    /\ obj \in AllTrees
    /\ cleaned = Null
    /\ san_pc = "input"
    /\ CallParked
    /\ environ = NoEnviron
    /\ ConParked

Sanitize ==
    /\ san_pc = "input"
    /\ cleaned' = remove_none_values(obj)
    /\ san_pc' = "done"
    /\ UNCHANGED <<obj, call_vars, con_vars>>

SanNext == Sanitize

SanSpec == SanInit /\ [][SanNext]_vars

\* The keys of dict d whose value is not null, in d's order.
NonNullKeys(d) ==
    LET Keeps(k) == At(d, <<KeyStep(k)>>).tag # "null"
    IN SelectSeq(d.keys, Keeps)

\* C7: remove_none_values returns its input with exactly the null-valued
\* mapping keys removed at every level: a node stays, with its tag, value and
\* path, iff no key on its path held null; nothing is added; a list keeps its
\* length (null elements included); a mapping keeps its surviving keys in
\* their order; the depth does not grow.
SanitizeRemovesExactlyNullKeys ==
    san_pc = "done" =>
        /\ \A p \in PathsOf(obj) :
              IF NoNullKeyOnPath(obj, p)
              THEN /\ At(cleaned, p).tag = At(obj, p).tag
                   /\ At(cleaned, p).val = At(obj, p).val
                   /\ At(obj, p).tag = "list" =>
                         Len(At(cleaned, p).items) = Len(At(obj, p).items)
                   /\ At(obj, p).tag = "dict" =>
                         At(cleaned, p).keys = NonNullKeys(At(obj, p))
              ELSE At(cleaned, p) = Missing
        /\ PathsOf(cleaned) \subseteq PathsOf(obj)
        /\ Depth(cleaned) <= Depth(obj)

\* C7 witness: a null-valued key below the top level was removed while an
\* empty string was kept.
SanitizeNestedCase ==
    /\ san_pc = "done"
    /\ \E p \in PathsOf(obj) :
          /\ Len(p) >= 2
          /\ p[Len(p)].i = 0
          /\ At(obj, p).tag = "null"
          /\ At(cleaned, Prefix(p, Len(p) - 1)).tag = "dict"
          /\ At(cleaned, p) = Missing
    /\ \E p \in PathsOf(cleaned) : At(cleaned, p) = Str("")

\* Every scalar leaf of t is null.
AllLeavesNull(t) ==
    \A p \in PathsOf(t) : IsContainer(At(t, p)) \/ At(t, p).tag = "null"

\* t is a container holding containers only: no leaf, null or not, anywhere.
EmptyStructure(t) ==
    \A p \in PathsOf(t) : IsContainer(At(t, p))

\* C8 as stated: a mapping whose leaves are all null, wherever they sit,
\* sanitizes to an empty structure.
AllNullYieldsEmpty ==
    (san_pc = "done" /\ obj.tag = "dict" /\ AllLeavesNull(obj)) =>
        EmptyStructure(cleaned)

\* A null that is an element of a list of t.
HasNullListElement(t) ==
    \E p \in PathsOf(t) :
        /\ p # <<>>
        /\ p[Len(p)].i # 0
        /\ At(t, p).tag = "null"

\* C8 amended: a mapping whose leaves are all null sanitizes to a structure
\* with no non-null leaf and no null-valued key; it is the empty mapping when
\* every top-level value is null, and holds no leaf at all unless a null sits
\* in a list, where it is kept.
AllNullYieldsNoNullKeys ==
    (san_pc = "done" /\ obj.tag = "dict" /\ AllLeavesNull(obj)) =>
        /\ AllLeavesNull(cleaned)
        /\ \A p \in PathsOf(cleaned) :
              (p # <<>> /\ At(cleaned, p).tag = "null") => p[Len(p)].i # 0
        /\ (\A j \in 1..Len(obj.items) : obj.items[j].tag = "null") =>
              cleaned = EmptyDict
        /\ ~HasNullListElement(obj) => EmptyStructure(cleaned)
        /\ HasNullListElement(obj) => HasNullListElement(cleaned)

\* C8 witness: the nulls sit inside a nested mapping, which is kept, empty.
AllNullNestedCase ==
    /\ san_pc = "done"
    /\ obj.tag = "dict"
    /\ AllLeavesNull(obj)
    /\ \E p \in PathsOf(obj) :
          /\ Len(p) = 2
          /\ p[1].i = 0
          /\ p[2].i = 0
          /\ At(obj, p).tag = "null"
          /\ At(cleaned, Prefix(p, 1)) = EmptyDict

(***************************************************************************)
(* Specification of the construction of the update data model              *)
(***************************************************************************)
ConInit ==
    /\ model_cls \in ModelClasses
    /\ kwargs \in KwargsOf(model_cls)
    /\ constructed = NotConstructed
    /\ con_pc = "input"
    /\ SanParked
    /\ CallParked
    /\ environ = NoEnviron

ConstructModel ==
    /\ con_pc = "input"
    /\ constructed' = Construct(model_cls, kwargs)
    /\ con_pc' = "done"
    /\ UNCHANGED <<model_cls, kwargs, san_vars, call_vars>>

ConNext == ConstructModel

ConSpec == ConInit /\ [][ConNext]_vars

\* The root of the wall update, its settings and a post.
UpdateModels == {"WallUpdateData", "WallUpdateSettingsData", "WallUpdatePostData"}

\* The id of a post is not given.
IdAbsent == model_cls = "WallUpdatePostData" /\ kwargs["post_id"] = Absent

\* A given value has the wrong type or is no member of the declared enum.
SomeValueRejected ==
    \E n \in FieldNames(model_cls) :
        kwargs[n] # Absent /\ ~Accepts(FieldNamed(model_cls, n), kwargs[n])

\* C10 as stated, for the root, the settings and a post: apart from the id
\* of a post every field is optional, so construction fails with
\* ValidationError exactly when that id is missing or a given value has the
\* wrong type or is no enum member.
OnlyIdsRequired ==
    (con_pc = "done" /\ model_cls \in UpdateModels) =>
        (constructed.error = "ValidationError" <=> (IdAbsent \/ SomeValueRejected))

\* What the models do: construction fails exactly when a field declared
\* without a default is missing or a given value is rejected.
FieldsWithoutDefaultRequired ==
    con_pc = "done" =>
        (constructed.error = "ValidationError" <=>
            \/ SomeValueRejected
            \/ \E n \in FieldNames(model_cls) :
                  kwargs[n] = Absent /\ ~FieldNamed(model_cls, n).has_default)

====
